---- MODULE Spec2Model ----
(***************************************************************************)
(* A model of the tag-input component (chen-ziwen/tag-input).              *)
(*                                                                         *)
(* The component keeps its buffer in the child nodes of a contenteditable  *)
(* element: text nodes and tag containers (span.tag-container).  Two       *)
(* variants of the component exist in the repository:                      *)
(*   - the string variant, src/src/components/TagInput.vue, whose          *)
(*     modelValue is a bracketed string ("hello {gift}");                  *)
(*   - the list variant, src/unnamed/part_000, whose modelValue holds a    *)
(*     list of {type, value} entries.                                      *)
(* Both use the same CursorManager (src/src/utils/CursorManager.ts).       *)
(*                                                                         *)
(* A string is modelled as a sequence of one-character strings.            *)
(***************************************************************************)
EXTENDS Integers, Sequences, FiniteSets, TLC

VARIABLES
    form,          \* "string" or "list": which variant of the component runs
    tags,          \* props.tags: the identifiers offered below the edit area
    dom,           \* editableContainer.childNodes
    selection,     \* window.getSelection(): its range, or none / outside
    currentRange,  \* currentRange.value: the remembered Range, or null
    modelValue,    \* string variant: props.modelValue as the owner holds it
    modelList,     \* list variant: props.modelValue.value as the owner holds it
    last,          \* what the last handler did (history, not program state)
    str,           \* codec check: the string handed to parseStringToContent
    content,       \* codec check: the array parseStringToContent returned
    encoded,       \* codec check: contentToString of that array
    stage          \* codec check: "input", "parsed", "encoded"; "off" otherwise

vars == <<form, tags, dom, selection, currentRange, modelValue, modelList,
          last, str, content, encoded, stage>>

(***************************************************************************)
(* Bounds of the model.                                                    *)
(***************************************************************************)
\* longest string handed to parseStringToContent in the codec check
MaxStrLen == 5
\* most child nodes the edit area holds
MaxNodes == 4
\* most characters typed into one text node
MaxText == 1
\* most tag containers inserted inside one tag container
MaxKids == 1
\* most entries of an initial list in the deletion check
MaxInitEntries == 4
\* most child nodes of the edit area in the editing check
MaxEditNodes == 3

\* characters of the codec check
Alphabet == {"{", "}", "a", "b"}
\* characters the user types into the edit area
TypeChars == {"{", " "}
\* JavaScript's white space, as String.prototype.trim sees it
WhiteSpace == {" "}

RECURSIVE StringsUpTo(_, _)
StringsUpTo(S, n) ==
    IF n = 0 THEN {<<>>}
    ELSE LET shorter == StringsUpTo(S, n - 1)
         IN  shorter \cup {Append(s, c) : s \in shorter, c \in S}

(***************************************************************************)
(* Content entries and the bracketed-string codec.                         *)
(***************************************************************************)
TextEntry(v) == [type |-> "text", value |-> v]
TagEntry(v) == [type |-> "tag", value |-> v]

\* the result of RegExp.prototype.exec when nothing matches
NoMatch == [index |-> 0, close |-> 0]

\* position of the first "}" at or after position i of s, 0 when there is none
RECURSIVE FirstClose(_, _)
FirstClose(s, i) ==
    IF i > Len(s) THEN 0
    ELSE IF s[i] = "}" THEN i
    ELSE FirstClose(s, i + 1)

\* tagRegex.exec(s) with tagRegex.lastIndex at position from (1-based):
\* the leftmost "{", one or more characters other than "}", "}".
RECURSIVE TagRegexExec(_, _)
TagRegexExec(s, from) ==
    IF from >= Len(s) THEN NoMatch
    ELSE IF /\ s[from] = "{"
            /\ s[from + 1] # "}"
            /\ FirstClose(s, from + 1) # 0
         THEN [index |-> from, close |-> FirstClose(s, from + 1)]
         ELSE TagRegexExec(s, from + 1)

\* a variant of the while loop that pushes the text before a match also
\* when there is none
RECURSIVE ParseLoopKeepsEmpty(_, _, _)
ParseLoopKeepsEmpty(s, lastIndex, acc) ==
    LET match == TagRegexExec(s, lastIndex)
    IN  IF match = NoMatch THEN [content |-> acc, lastIndex |-> lastIndex]
        ELSE LET textBefore == SubSeq(s, lastIndex, match.index - 1)
                 tag == SubSeq(s, match.index + 1, match.close - 1)
             IN  ParseLoopKeepsEmpty(s, match.close + 1,
                     acc \o <<TextEntry(textBefore), TagEntry(tag)>>)

\* the while loop of parseStringToContent
RECURSIVE ParseLoop(_, _, _)
ParseLoop(s, lastIndex, acc) ==
    LET match == TagRegexExec(s, lastIndex)
    IN  IF match = NoMatch THEN [content |-> acc, lastIndex |-> lastIndex]
        ELSE LET textBefore == SubSeq(s, lastIndex, match.index - 1)
                 withText == IF match.index > lastIndex /\ textBefore # <<>>
                             THEN Append(acc, TextEntry(textBefore))
                             ELSE acc
                 tag == SubSeq(s, match.index + 1, match.close - 1)
             IN  ParseLoop(s, match.close + 1, Append(withText, TagEntry(tag)))

\* normalize of the specification: empty text entries dropped, consecutive
\* text entries merged
RECURSIVE normalize(_)
normalize(c) ==
    IF c = <<>> THEN <<>>
    ELSE LET h == Head(c)
             rest == normalize(Tail(c))
         IN  IF h.type = "text" /\ h.value = <<>> THEN rest
             ELSE IF h.type = "text" /\ rest # <<>> /\ Head(rest).type = "text"
             THEN <<TextEntry(h.value \o Head(rest).value)>> \o Tail(rest)
             ELSE <<h>> \o rest

\* a variant of parseStringToContent that keeps a match as a tag only when
\* props.tags has its identifier, and as literal text otherwise
ParseChecksCatalog(s) ==
    IF s = <<>> THEN <<>>
    ELSE LET loop == ParseLoop(s, 1, <<>>)
             textAfter == SubSeq(s, loop.lastIndex, Len(s))
             all == IF loop.lastIndex <= Len(s) /\ textAfter # <<>>
                    THEN Append(loop.content, TextEntry(textAfter))
                    ELSE loop.content
         IN  normalize([i \in 1..Len(all) |->
                 IF all[i].type = "tag" /\ all[i].value \notin tags
                 THEN TextEntry(<<"{">> \o all[i].value \o <<"}">>)
                 ELSE all[i]])

\* a variant of parseStringToContent that forgets the text after the last match
ParseDropsTail(s) ==
    IF s = <<>> THEN <<>> ELSE ParseLoop(s, 1, <<>>).content

parseStringToContent(s) ==
    IF s = <<>> THEN <<>>
    ELSE LET loop == ParseLoop(s, 1, <<>>)
             textAfter == SubSeq(s, loop.lastIndex, Len(s))
         IN  IF loop.lastIndex <= Len(s) /\ textAfter # <<>>
             THEN Append(loop.content, TextEntry(textAfter))
             ELSE loop.content

\* a variant of contentToString that writes a tag entry as its identifier
\* alone, without the braces
RECURSIVE ContentToStringBare(_)
ContentToStringBare(c) ==
    IF c = <<>> THEN <<>>
    ELSE Head(c).value \o ContentToStringBare(Tail(c))

RECURSIVE contentToString(_)
contentToString(c) ==
    IF c = <<>> THEN <<>>
    ELSE LET item == Head(c)
         IN  (IF item.type = "text" THEN item.value
              ELSE <<"{">> \o item.value \o <<"}">>) \o contentToString(Tail(c))

(***************************************************************************)
(* The edit area: child nodes, boundary points and ranges.                 *)
(*                                                                         *)
(* A child node is a text node or a tag container.  kids counts the tag    *)
(* containers that were inserted inside a tag container (a Range whose     *)
(* start lies inside a tag container inserts there).                       *)
(*                                                                         *)
(* A boundary point is [node, off]: node = 0 is the edit area itself and   *)
(* off counts its child nodes; node = i > 0 is child i, off counts the     *)
(* characters of a text node and is 0 for "somewhere inside tag i".        *)
(***************************************************************************)
TextNode(v) == [type |-> "text", value |-> v, kids |-> 0]

\* createTagContainer: span.tag-container with dataset.tag = tag
createTagContainer(tag) == [type |-> "tag", value |-> tag, kids |-> 0]

isTagContainer(d, i) == i \in 1..Len(d) /\ d[i].type = "tag"

Point(n, o) == [node |-> n, off |-> o]
Range(s, e) == [kind |-> "in", start |-> s, end |-> e]
Caret(p) == Range(p, p)
\* no range at all: selection.rangeCount = 0, or currentRange.value = null
Null == [kind |-> "none", start |-> Point(0, 0), end |-> Point(0, 0)]
\* a selection somewhere else in the document
Outside == [kind |-> "outside", start |-> Point(0, 0), end |-> Point(0, 0)]

\* a variant of the collapsed test that compares only the nodes of the two
\* boundary points
CollapsedSameNode(r) == r.start.node = r.end.node

collapsed(r) == r.start = r.end

\* the boundary points of the edit area d
Points(d) ==
    {Point(0, k) : k \in 0..Len(d)}
    \cup UNION {IF d[i].type = "text"
                THEN {Point(i, o) : o \in 0..Len(d[i].value)}
                ELSE {Point(i, 0)} : i \in 1..Len(d)}

InTag(d, p) == p.node > 0 /\ d[p.node].type = "tag"
InText(d, p) == p.node > 0 /\ d[p.node].type = "text"

\* the ranges a user selects in d: every caret, every non-collapsed range
\* inside one text node, and the whole content of the edit area
UserRanges(d) ==
    LET inText == {Range(Point(i, a), Point(i, b)) :
                      i \in {n \in 1..Len(d) : d[n].type = "text"},
                      a \in 0..MaxText, b \in 1..MaxText}
        all == IF Len(d) > 0 THEN {Range(Point(0, 0), Point(0, Len(d)))} ELSE {}
    IN  {Caret(p) : p \in Points(d)}
        \cup {r \in inText : r.start.off < r.end.off
                               /\ r.end.off <= Len(d[r.end.node].value)}
        \cup all

RemoveAt(s, i) == SubSeq(s, 1, i - 1) \o SubSeq(s, i + 1, Len(s))
InsertAt(s, i, x) == SubSeq(s, 1, i - 1) \o <<x>> \o SubSeq(s, i, Len(s))

(***************************************************************************)
(* CursorManager.                                                          *)
(***************************************************************************)
\* a variant of saveCurrentRange that keeps the range remembered so far when
\* the selection gives none
SaveKeepsEarlier(sel) == IF sel.kind = "in" THEN sel ELSE currentRange

\* a variant of saveCurrentRange without the container.contains check
SaveAnyRange(sel) == sel

\* saveCurrentRange: a clone of the selection's range when it lies in the
\* container, null otherwise
saveCurrentRange(sel) == IF sel.kind = "in" THEN sel ELSE Null

\* getDefaultRange: selectNodeContents(container), collapse(false)
getDefaultRange(d) == Caret(Point(0, Len(d)))

\* Range.deleteContents on the edit area: [dom, at], at the collapsed point
\* the range is left at
deleteContents(d, r) ==
    LET s == r.start
        e == r.end
    IN  IF collapsed(r) \/ InTag(d, s) \/ InTag(d, e) THEN [dom |-> d, at |-> s]
        ELSE IF s.node > 0 /\ s.node = e.node
        THEN [dom |-> [d EXCEPT ![s.node].value =
                          SubSeq(@, 1, s.off) \o SubSeq(@, e.off + 1, Len(@))],
              at |-> s]
        ELSE LET lo == IF s.node = 0 THEN s.off + 1 ELSE s.node + 1
                 hi == IF e.node = 0 THEN e.off ELSE e.node - 1
                 cut == [i \in 1..Len(d) |->
                           IF i = s.node /\ s.node > 0
                           THEN [d[i] EXCEPT !.value = SubSeq(@, 1, s.off)]
                           ELSE IF i = e.node /\ e.node > 0
                           THEN [d[i] EXCEPT !.value = SubSeq(@, e.off + 1, Len(@))]
                           ELSE d[i]]
             IN  [dom |-> SubSeq(cut, 1, lo - 1) \o SubSeq(cut, hi + 1, Len(cut)),
                  at |-> IF s.node = 0 THEN s ELSE Point(0, s.node)]

\* a variant of insertNode that leaves the caret before the inserted element
InsertNodeCaretBefore(d, p, element) ==
    IF p.node = 0
    THEN [dom |-> InsertAt(d, p.off + 1, element),
          at |-> Point(0, p.off), index |-> p.off + 1]
    ELSE IF d[p.node].type = "text"
    THEN [dom |-> SubSeq(d, 1, p.node - 1)
                  \o <<TextNode(SubSeq(d[p.node].value, 1, p.off)),
                       element,
                       TextNode(SubSeq(d[p.node].value, p.off + 1,
                                       Len(d[p.node].value)))>>
                  \o SubSeq(d, p.node + 1, Len(d)),
          at |-> Point(0, p.node), index |-> p.node + 1]
    ELSE [dom |-> [d EXCEPT ![p.node].kids = @ + 1],
          at |-> p, index |-> 0]

\* Range.insertNode at a collapsed point, then setStartAfter / setEndAfter:
\* [dom, at, index]; index is the new child's place, 0 when it went inside
\* a tag container.  A text node holding the point is split there, also at
\* its first or last position, which leaves an empty text node.
insertNode(d, p, element) ==
    IF p.node = 0
    THEN [dom |-> InsertAt(d, p.off + 1, element),
          at |-> Point(0, p.off + 1), index |-> p.off + 1]
    ELSE IF d[p.node].type = "text"
    THEN [dom |-> SubSeq(d, 1, p.node - 1)
                  \o <<TextNode(SubSeq(d[p.node].value, 1, p.off)),
                       element,
                       TextNode(SubSeq(d[p.node].value, p.off + 1,
                                       Len(d[p.node].value)))>>
                  \o SubSeq(d, p.node + 1, Len(d)),
          at |-> Point(0, p.node + 1), index |-> p.node + 1]
    ELSE [dom |-> [d EXCEPT ![p.node].kids = @ + 1],
          at |-> p, index |-> 0]

\* a variant of insertElementAtRange that ignores the range and appends the
\* element to the edit area
InsertAppends(d, element, range) == insertNode(d, Point(0, Len(d)), element)

\* insertElementAtRange(element, range): delete the selected contents, insert
\* the element, put the caret after it
insertElementAtRange(d, element, range) ==
    LET del == deleteContents(d, range)
    IN  insertNode(del.dom, del.at, element)

\* a variant of removeElementAndAdjustCursor that removes the first tag
\* container carrying the same identifier instead of the element it is given
RemoveFirstWithSameTag(d, i) ==
    LET j == CHOOSE k \in 1..i :
                 /\ d[k].type = "tag" /\ d[k].value = d[i].value
                 /\ \A m \in 1..(k - 1) : ~(d[m].type = "tag" /\ d[m].value = d[i].value)
    IN  [dom |-> RemoveAt(d, j), at |-> Point(0, j - 1)]

\* a variant of removeElementAndAdjustCursor after which the browser's own
\* deletion still runs: the character before the element goes as well
RemoveWithPrevChar(d, i) ==
    LET cut == IF i > 1 /\ d[i - 1].type = "text" /\ d[i - 1].value # <<>>
               THEN [d EXCEPT ![i - 1].value = SubSeq(@, 1, Len(@) - 1)]
               ELSE d
    IN  [dom |-> RemoveAt(cut, i), at |-> Point(0, i - 1)]

\* a variant of removeElementAndAdjustCursor that leaves the caret at the end
\* of the edit area
RemoveCaretAtEnd(d, i) ==
    [dom |-> RemoveAt(d, i), at |-> Point(0, Len(d) - 1)]

\* removeElementAndAdjustCursor(element), element being child i: a range
\* before the element, element.remove(), restoreRange
removeElementAndAdjustCursor(d, i) ==
    [dom |-> RemoveAt(d, i), at |-> Point(0, i - 1)]

(***************************************************************************)
(* The component: rendering, collecting and emitting the model value.      *)
(***************************************************************************)
\* String.prototype.trim
RECURSIVE trimStart(_)
trimStart(s) ==
    IF s # <<>> /\ Head(s) \in WhiteSpace THEN trimStart(Tail(s)) ELSE s

RECURSIVE trimEnd(_)
trimEnd(s) ==
    IF s # <<>> /\ s[Len(s)] \in WhiteSpace
    THEN trimEnd(SubSeq(s, 1, Len(s) - 1)) ELSE s

trim(s) == trimEnd(trimStart(s))

\* the forEach of renderModelValue: one child node per entry
RenderContent(c) ==
    [i \in 1..Len(c) |->
        IF c[i].type = "text" THEN TextNode(c[i].value)
        ELSE createTagContainer(c[i].value)]

\* string variant: renderModelValue on the empty edit area
renderModelValue(value) ==
    IF value = <<>> THEN <<>> ELSE RenderContent(parseStringToContent(value))

\* list variant: renderModelValue on the empty edit area
renderModelValueList(value) ==
    IF Len(value) = 0 THEN <<>> ELSE RenderContent(value)

\* the forEach of updateModelValue over the child nodes i..Len(d); keep(text)
\* is the text a text node contributes
RECURSIVE CollectFrom(_, _, _)
CollectFrom(d, i, trimmed) ==
    IF i > Len(d) THEN <<>>
    ELSE LET node == d[i]
             text == IF trimmed THEN trim(node.value) ELSE node.value
             entry == IF node.type = "text"
                      THEN (IF text # <<>> THEN <<TextEntry(text)>> ELSE <<>>)
                      ELSE (IF node.value # <<>> THEN <<TagEntry(node.value)>> ELSE <<>>)
         IN  entry \o CollectFrom(d, i + 1, trimmed)

\* string variant: the content array updateModelValue builds
CollectContent(d) == CollectFrom(d, 1, FALSE)

\* a variant of the string variant's updateModelValue that trims the text of
\* each text node, as the list variant does
UpdateTrimmedString(d) == contentToString(CollectFrom(d, 1, TRUE))

\* string variant: what updateModelValue emits
updateModelValue(d) == contentToString(CollectContent(d))

\* list variant: the value updateModelValue emits (text trimmed)
updateModelValueList(d) == CollectFrom(d, 1, TRUE)

(***************************************************************************)
(* findTagToDelete: the tag container a Backspace at the collapsed caret p *)
(* deletes, as a child index, 0 for null.                                  *)
(***************************************************************************)
\* the last element child of the edit area, 0 when there is none
lastElementChild(d) ==
    IF \E i \in 1..Len(d) : d[i].type = "tag"
    THEN CHOOSE i \in 1..Len(d) :
             d[i].type = "tag" /\ \A j \in (i + 1)..Len(d) : d[j].type # "tag"
    ELSE 0

\* case 1: the caret is inside a tag container
FindCase1(d, p) == IF p.node > 0 /\ d[p.node].type = "tag" THEN p.node ELSE 0

\* case 2: the caret is at the start of a text node and the previous sibling
\* is a tag container
FindCase2(d, p) ==
    IF p.off = 0 /\ p.node > 0 /\ d[p.node].type = "text"
       /\ isTagContainer(d, p.node - 1)
    THEN p.node - 1 ELSE 0

\* case 3: the caret is in the container, after a child that is a tag container
FindCase3(d, p) ==
    IF p.node = 0 /\ p.off > 0 /\ isTagContainer(d, p.off) THEN p.off ELSE 0

\* a variant of case 4 that looks at the last child node only
FindCase4LastChild(d, p) ==
    IF p.node = 0 /\ p.off = Len(d) /\ isTagContainer(d, Len(d)) THEN Len(d) ELSE 0

\* case 4: the caret is at the end of the container: its last element child
FindCase4(d, p) ==
    IF p.node = 0 /\ p.off = Len(d) THEN lastElementChild(d) ELSE 0

\* which case of findTagToDelete answers, 0 when none does
FindCase(d, p) ==
    IF FindCase1(d, p) # 0 THEN 1
    ELSE IF FindCase2(d, p) # 0 THEN 2
    ELSE IF FindCase3(d, p) # 0 THEN 3
    ELSE IF FindCase4(d, p) # 0 THEN 4
    ELSE 0

\* a variant of findTagToDelete without case 2
FindWithoutCase2(d, p) ==
    IF FindCase1(d, p) # 0 THEN FindCase1(d, p)
    ELSE IF FindCase3(d, p) # 0 THEN FindCase3(d, p)
    ELSE FindCase4(d, p)

findTagToDelete(d, p) ==
    IF FindCase1(d, p) # 0 THEN FindCase1(d, p)
    ELSE IF FindCase2(d, p) # 0 THEN FindCase2(d, p)
    ELSE IF FindCase3(d, p) # 0 THEN FindCase3(d, p)
    ELSE FindCase4(d, p)

(***************************************************************************)
(* The state machine.  nextTick callbacks are microtasks: they run before  *)
(* the next event is handled, so each action is a handler together with    *)
(* the callback it schedules.                                              *)
(***************************************************************************)
\* props.tags
Catalog == {<<"a">>}

\* the initial model values the owner hands over
InitStrings ==
    {<<>>, <<"{">>, <<"{", "a", "}">>, <<" ", "{", "b", "}">>}
InitLists ==
    {<<>>,
     <<TextEntry(<<"{", " ">>)>>,
     <<TagEntry(<<"a">>), TextEntry(<<"{">>)>>}

\* the record of what the last handler did: the operation, the child index
\* it removed or inserted (0: none), the case of findTagToDelete that
\* answered, whether it called preventDefault, whether it emitted
\* update:modelValue, and whether the browser has edited text so far
Did(op, target, caseNo, prevented, emitted, typed) ==
    [op |-> op, target |-> target, case |-> caseNo,
     prevented |-> prevented, emitted |-> emitted, typed |-> typed]

codecVars == <<str, content, encoded, stage>>

\* onMounted: initComponent, renderModelValue
Init ==
    /\ form \in {"string", "list"}
    /\ tags = Catalog
    /\ modelValue \in (IF form = "string" THEN InitStrings ELSE {<<>>})
    /\ modelList \in (IF form = "list" THEN InitLists ELSE {<<>>})
    /\ dom = IF form = "string" THEN renderModelValue(modelValue)
             ELSE renderModelValueList(modelList)
    /\ selection = Null
    /\ currentRange = Null
    /\ last = Did("init", 0, 0, FALSE, FALSE, FALSE)
    /\ str = <<>> /\ content = <<>> /\ encoded = <<>> /\ stage = "off"

\* saveCursorPosition
saveCursorPosition(sel) == currentRange' = saveCurrentRange(sel)

\* a variant of Emit that encodes the edit area as it was before the handler
EmitStale(d) ==
    /\ modelValue' = IF form = "string" THEN updateModelValue(dom) ELSE modelValue
    /\ modelList' = IF form = "list" THEN updateModelValueList(dom) ELSE modelList

\* emit('update:modelValue', ...) received by the owner's v-model
Emit(d) ==
    /\ modelValue' = IF form = "string" THEN updateModelValue(d) ELSE modelValue
    /\ modelList' = IF form = "list" THEN updateModelValueList(d) ELSE modelList

\* a variant of UpdateAndSave for a component that watches its model value:
\* the value it emitted comes back through v-model and is rendered again
UpdateAndRender(d, sel) ==
    /\ Emit(d)
    /\ dom' = IF form = "string" THEN renderModelValue(updateModelValue(d))
              ELSE renderModelValueList(updateModelValueList(d))
    /\ selection' = Caret(Point(0, 0))
    /\ currentRange' = Caret(Point(0, 0))

\* the edit area changed to d with the selection at sel; then the nextTick
\* callback: updateModelValue, saveCursorPosition
UpdateAndSave(d, sel) ==
    /\ dom' = d
    /\ selection' = sel
    /\ Emit(d)
    /\ saveCursorPosition(sel)

\* the focus event: the edit area gains the focus
handleFocus ==
    /\ stage = "off"
    /\ saveCursorPosition(selection)
    /\ last' = Did("focus", 0, 0, FALSE, FALSE, last.typed)
    /\ UNCHANGED <<form, tags, dom, selection, modelValue, modelList, codecVars>>

\* a click in the edit area: the browser sets the selection, then the click
\* event runs handleClick
handleClick ==
    /\ stage = "off"
    /\ \E r \in UserRanges(dom) :
          /\ selection' = r
          /\ saveCursorPosition(r)
    /\ last' = Did("click", 0, 0, FALSE, FALSE, last.typed)
    /\ UNCHANGED <<form, tags, dom, modelValue, modelList, codecVars>>

\* a click elsewhere on the page: the selection leaves the edit area or
\* goes away; no handler of the component runs
Blur ==
    /\ stage = "off"
    /\ \E r \in {Null, Outside} :
          /\ r # selection
          /\ selection' = r
    /\ last' = Did("blur", 0, 0, FALSE, FALSE, last.typed)
    /\ UNCHANGED <<form, tags, dom, currentRange, modelValue, modelList, codecVars>>

\* a click on one of the tags offered below the edit area
handleTagClick ==
    /\ stage = "off"
    /\ \E tag \in tags :
          LET targetRange == IF currentRange.kind # "in"
                             THEN getDefaultRange(dom) ELSE currentRange
              ins == insertElementAtRange(dom, createTagContainer(tag), targetRange)
          IN  /\ Len(ins.dom) <= MaxNodes
              /\ \A i \in 1..Len(ins.dom) : ins.dom[i].kids <= MaxKids
              /\ UpdateAndSave(ins.dom, Caret(ins.at))
              /\ last' = Did("insert", ins.index, 0, FALSE, TRUE, last.typed)
    /\ UNCHANGED <<form, tags, codecVars>>

\* the close button of the tag container that is child i
removeTag ==
    /\ stage = "off"
    /\ \E i \in 1..Len(dom) :
          /\ isTagContainer(dom, i)
          /\ LET rem == removeElementAndAdjustCursor(dom, i)
             IN  UpdateAndSave(rem.dom, Caret(rem.at))
          /\ last' = Did("remove", i, 0, FALSE, TRUE, last.typed)
    /\ UNCHANGED <<form, tags, codecVars>>

\* the close button of a tag container that sits inside child i
removeNestedTag ==
    /\ stage = "off"
    /\ \E i \in 1..Len(dom) :
          /\ isTagContainer(dom, i)
          /\ dom[i].kids > 0
          /\ UpdateAndSave([dom EXCEPT ![i].kids = @ - 1], Caret(Point(i, 0)))
          /\ last' = Did("removeNested", i, 0, FALSE, TRUE, last.typed)
    /\ UNCHANGED <<form, tags, codecVars>>

\* the browser's own Backspace at the caret p: the character before a caret
\* inside a text node goes; [dom, at, changed]
DefaultBackspace(d, p) ==
    IF InText(d, p) /\ p.off > 0
    THEN [dom |-> [d EXCEPT ![p.node].value = RemoveAt(@, p.off)],
          at |-> Point(p.node, p.off - 1), changed |-> TRUE]
    ELSE [dom |-> d, at |-> p, changed |-> FALSE]

\* handleKeyDown for Backspace, the browser's default action when it is not
\* prevented, and handleInput when that action changed the edit area
handleKeyDown ==
    /\ stage = "off"
    /\ IF selection.kind = "none"
       THEN /\ last' = Did("backspace", 0, 0, FALSE, FALSE, last.typed)
            /\ UNCHANGED <<dom, selection, currentRange, modelValue, modelList>>
       ELSE IF selection.kind = "outside"
       THEN /\ saveCursorPosition(selection)
            /\ last' = Did("backspace", 0, 0, FALSE, FALSE, last.typed)
            /\ UNCHANGED <<dom, selection, modelValue, modelList>>
       ELSE IF ~collapsed(selection)
       THEN /\ LET del == deleteContents(dom, selection)
               IN  UpdateAndSave(del.dom, Caret(del.at))
            /\ last' = Did("backspace", 0, 0, FALSE, TRUE, TRUE)
       ELSE LET tagToDelete == findTagToDelete(dom, selection.start)
                rem == removeElementAndAdjustCursor(dom, tagToDelete)
                def == DefaultBackspace(dom, selection.start)
            IN  IF tagToDelete # 0
                THEN /\ UpdateAndSave(rem.dom, Caret(rem.at))
                     /\ last' = Did("backspace", tagToDelete,
                                    FindCase(dom, selection.start), TRUE, TRUE,
                                    last.typed)
                ELSE IF def.changed
                THEN /\ UpdateAndSave(def.dom, Caret(def.at))
                     /\ last' = Did("backspace", 0, 0, FALSE, TRUE, TRUE)
                ELSE /\ saveCursorPosition(selection)
                     /\ last' = Did("backspace", 0, 0, FALSE, FALSE, last.typed)
                     /\ UNCHANGED <<dom, selection, modelValue, modelList>>
    /\ UNCHANGED <<form, tags, codecVars>>

\* a variant of handleKeyDownOther whose nextTick callback is the one of
\* handleInput: updateModelValue, then saveCursorPosition
KeyDownOtherUpdates ==
    /\ stage = "off"
    /\ saveCursorPosition(selection)
    /\ Emit(dom)
    /\ last' = Did("key", 0, 0, FALSE, TRUE, last.typed)
    /\ UNCHANGED <<form, tags, dom, selection, codecVars>>

\* handleKeyDown for a key that edits nothing (Home, End, Shift, ...): the
\* nextTick callback saves the selection, then the browser may move the
\* caret to the start or the end of the edit area
handleKeyDownOther ==
    /\ stage = "off"
    /\ saveCursorPosition(selection)
    /\ \E r \in {selection, Caret(Point(0, 0)), Caret(Point(0, Len(dom)))} :
          /\ selection.kind # "in" => r = selection
          /\ selection' = r
    /\ last' = Did("key", 0, 0, FALSE, FALSE, last.typed)
    /\ UNCHANGED <<form, tags, dom, modelValue, modelList, codecVars>>

\* the browser's insertion of the character c at the caret p: into the text
\* node holding the caret, into a text node next to a caret that lies
\* between child nodes, else as a new text node; [dom, at]
TypeAt(d, p, c) ==
    LET into(i, o) == [dom |-> [d EXCEPT ![i].value =
                                   SubSeq(@, 1, o) \o <<c>> \o SubSeq(@, o + 1, Len(@))],
                       at |-> Point(i, o + 1)]
    IN  IF p.node > 0 THEN into(p.node, p.off)
        ELSE IF p.off >= 1 /\ d[p.off].type = "text"
        THEN into(p.off, Len(d[p.off].value))
        ELSE IF p.off < Len(d) /\ d[p.off + 1].type = "text"
        THEN into(p.off + 1, 0)
        ELSE [dom |-> InsertAt(d, p.off + 1, TextNode(<<c>>)),
              at |-> Point(p.off + 1, 1)]

\* a character key: handleKeyDown (not Backspace), the browser's insertion,
\* handleInput
handleInput ==
    /\ stage = "off"
    /\ selection.kind = "in"
    /\ collapsed(selection)
    /\ ~InTag(dom, selection.start)
    /\ \E c \in TypeChars :
          LET typed == TypeAt(dom, selection.start, c)
          IN  /\ Len(typed.dom) <= MaxNodes
              /\ \A i \in 1..Len(typed.dom) :
                    typed.dom[i].type = "text" => Len(typed.dom[i].value) <= MaxText
              /\ UpdateAndSave(typed.dom, Caret(typed.at))
    /\ last' = Did("input", 0, 0, FALSE, TRUE, TRUE)
    /\ UNCHANGED <<form, tags, codecVars>>

Next ==
    \/ handleFocus
    \/ handleClick
    \/ Blur
    \/ handleTagClick
    \/ removeTag
    \/ removeNestedTag
    \/ handleKeyDown
    \/ handleKeyDownOther
    \/ handleInput

Spec == Init /\ [][Next]_vars

(***************************************************************************)
(* Deletion check: the component mounted on any short list of entries      *)
(* (the owner may hand over empty and consecutive text entries), or on the *)
(* bracketed string of that list, and a user who clicks, presses Backspace *)
(* and closes tags.                                                        *)
(***************************************************************************)
EntryKinds ==
    {TextEntry(<<>>), TextEntry(<<"{">>), TagEntry(<<"a">>), TagEntry(<<"b">>)}
AnyLists == StringsUpTo(EntryKinds, MaxInitEntries)

DeleteInit ==
    /\ form \in {"string", "list"}
    /\ tags = Catalog
    /\ \E list \in AnyLists :
          /\ modelList = IF form = "list" THEN list ELSE <<>>
          /\ modelValue = IF form = "string" THEN contentToString(list) ELSE <<>>
    /\ dom = IF form = "string" THEN renderModelValue(modelValue)
             ELSE renderModelValueList(modelList)
    /\ selection = Null
    /\ currentRange = Null
    /\ last = Did("init", 0, 0, FALSE, FALSE, FALSE)
    /\ str = <<>> /\ content = <<>> /\ encoded = <<>> /\ stage = "off"

DeleteNext ==
    \/ handleClick
    \/ Blur
    \/ handleKeyDown
    \/ removeTag

DeleteSpec == DeleteInit /\ [][DeleteNext]_vars

(***************************************************************************)
(* Editing check: the component mounted on one of the initial model values *)
(* and a user who clicks, inserts tags, closes tags and presses Backspace, *)
(* in an edit area of at most MaxEditNodes child nodes.                    *)
(***************************************************************************)
\* removeTag of a tag container that is no longer in the document (the one
\* the last handler removed): range.setStartBefore(element) throws
\* InvalidNodeTypeError for a node without a parent, so element.remove(),
\* restoreRange and the nextTick callback never run
removeDetachedTag ==
    /\ stage = "off"
    /\ last.op \in {"remove", "backspace"}
    /\ last.target # 0
    /\ last' = Did("fault", 0, 0, FALSE, FALSE, last.typed)
    /\ UNCHANGED <<form, tags, dom, selection, currentRange, modelValue,
                   modelList, codecVars>>

\* handleTagClick while the edit area stays within MaxEditNodes child nodes
EditTagClick == handleTagClick /\ Len(dom') <= MaxEditNodes

EditNext ==
    \/ handleFocus
    \/ handleClick
    \/ Blur
    \/ EditTagClick
    \/ removeTag
    \/ removeNestedTag
    \/ removeDetachedTag
    \/ handleKeyDown

EditSpec == Init /\ [][EditNext]_vars

(***************************************************************************)
(* Session check: the component mounted on one of the initial model values *)
(* in an edit area of at most MaxEditNodes child nodes, a user who clicks, *)
(* inserts and closes tags, and an owner who assigns other values to the   *)
(* model value bound with v-model.                                         *)
(***************************************************************************)
\* the owner assigns another value to the model value: props.modelValue
\* changes.  The component has no watcher on it, initComponent is called
\* from onMounted only, and the template binds nothing of it to the edit
\* area, so no code of the component runs
modelValueChanged ==
    /\ stage = "off"
    /\ IF form = "string"
       THEN /\ modelValue' \in InitStrings \ {modelValue}
            /\ modelList' = modelList
       ELSE /\ modelList' \in InitLists \ {modelList}
            /\ modelValue' = modelValue
    /\ last' = Did("owner", 0, 0, FALSE, FALSE, last.typed)
    /\ UNCHANGED <<form, tags, dom, selection, currentRange, codecVars>>

SessionNext ==
    \/ handleClick
    \/ EditTagClick
    \/ removeTag
    \/ modelValueChanged

SessionSpec == Init /\ [][SessionNext]_vars

(***************************************************************************)
(* Caret check: the component mounted on one of the initial model values   *)
(* and a user who focuses, clicks, presses Backspace and other keys and    *)
(* types, without inserting or closing tags.                               *)
(***************************************************************************)
CaretNext ==
    \/ handleFocus
    \/ handleClick
    \/ Blur
    \/ handleKeyDown
    \/ handleKeyDownOther
    \/ handleInput

CaretSpec == Init /\ [][CaretNext]_vars

(***************************************************************************)
(* Codec check: parseStringToContent and contentToString applied to every  *)
(* short string, under every catalog.                                      *)
(***************************************************************************)
CodecIds == {<<"a">>, <<"b">>}

CodecInit ==
    /\ form = "string"
    /\ tags \in SUBSET CodecIds
    /\ dom = <<>>
    /\ selection = Null
    /\ currentRange = Null
    /\ modelValue = <<>>
    /\ modelList = <<>>
    /\ last = Did("init", 0, 0, FALSE, FALSE, FALSE)
    /\ str \in StringsUpTo(Alphabet, MaxStrLen)
    /\ content = <<>>
    /\ encoded = <<>>
    /\ stage = "input"

Parse ==
    /\ stage = "input"
    /\ content' = parseStringToContent(str)
    /\ stage' = "parsed"
    /\ UNCHANGED <<form, tags, dom, selection, currentRange, modelValue,
                   modelList, last, str, encoded>>

Encode ==
    /\ stage = "parsed"
    /\ encoded' = contentToString(content)
    /\ stage' = "encoded"
    /\ UNCHANGED <<form, tags, dom, selection, currentRange, modelValue,
                   modelList, last, str, content>>

CodecNext == Parse \/ Encode

CodecSpec == CodecInit /\ [][CodecNext]_vars

(***************************************************************************)
(* Properties of the codec.                                                *)
(***************************************************************************)
Decoded == stage \in {"parsed", "encoded"}

BraceFree(s) == \A i \in 1..Len(s) : s[i] \notin {"{", "}"}

\* s[i] is a "{" that no "}" follows
Unclosed(s, i) == s[i] = "{" /\ \A j \in (i + 1)..Len(s) : s[j] # "}"

\* s is brace-free text, one {identifier} from position i to position j,
\* and brace-free text
OneMatch(s, i, j) ==
    /\ i + 1 < j
    /\ s[i] = "{" /\ s[j] = "}"
    /\ BraceFree(SubSeq(s, 1, i - 1))
    /\ BraceFree(SubSeq(s, i + 1, j - 1))
    /\ BraceFree(SubSeq(s, j + 1, Len(s)))

C10_UnclosedBraceIsText ==
    Decoded =>
        \A i \in 1..Len(str) :
            Unclosed(str, i) =>
                /\ content # <<>>
                /\ content[Len(content)].type = "text"
                /\ LET v == content[Len(content)].value
                       n == Len(str) - i + 1
                   IN  /\ Len(v) >= n
                       /\ SubSeq(v, Len(v) - n + 1, Len(v)) = SubSeq(str, i, Len(str))
                /\ contentToString(content) = str

\* an input with a tag and then an unclosed "{" was decoded
C10_Witness ==
    /\ stage = "parsed"
    /\ \E i \in 1..Len(str) : Unclosed(str, i)
    /\ \E k \in 1..Len(content) : content[k].type = "tag"
    /\ content[Len(content)].type = "text"

(***************************************************************************)
(* Properties of deletion and of Backspace.  In an action formula the      *)
(* unprimed variables are the state a handler found and last' tells which  *)
(* handler ran.                                                            *)
(***************************************************************************)
EmptyText(d, i) == d[i].type = "text" /\ d[i].value = <<>>

\* the step is a Backspace pressed with the collapsed caret at p
BackspaceAt(p) == selection = Caret(p) /\ last'.op = "backspace"

\* the tag containers of d, in order
Tokens(d) == SelectSeq(d, LAMBDA n : n.type = "tag")

\* C4: deleting a tag container, by its close button or by Backspace,
\* removes exactly the targeted child node: the edit area afterwards is the
\* edit area before without that one node, every other tag container (also
\* one with the same identifier) and every text node unchanged and in order.
C4_AtomicDeletion ==
    [][(last'.op \in {"remove", "backspace"} /\ last'.target # 0)
       => /\ isTagContainer(dom, last'.target)
          /\ dom' = RemoveAt(dom, last'.target)]_vars

\* a tag container was deleted that was not the first with its identifier,
\* and an earlier one with that identifier is still there
C4_Witness ==
    /\ last.op \in {"remove", "backspace"}
    /\ last.target > 1
    /\ \E i \in 1..(last.target - 1), j \in 1..Len(dom) :
          /\ dom[i].type = "tag"
          /\ dom[j].type = "text" /\ dom[j].value # <<>>
          /\ Len(Tokens(dom)) >= 2
          /\ Tokens(dom)[1] = Tokens(dom)[2]

\* the nearest child node at or before child k that is not an empty text
\* node, 0 when there is none
NearestNonEmpty(d, k) ==
    IF \E j \in 1..k : ~EmptyText(d, j)
    THEN CHOOSE j \in 1..k :
             ~EmptyText(d, j) /\ \A m \in (j + 1)..k : EmptyText(d, m)
    ELSE 0

\* the caret positions of claim C5: the start of the buffer, inside a text
\* node after its first character, or between child nodes where the nearest
\* child before the caret that is not an empty text node is a text node
C5_Position(d, p) ==
    \/ p = Point(0, 0)
    \/ InText(d, p) /\ p.off > 0
    \/ /\ p.node = 0 /\ p.off > 0
       /\ NearestNonEmpty(d, p.off) # 0
       /\ d[NearestNonEmpty(d, p.off)].type = "text"

\* C5, as claimed: a Backspace at a position where no tag container lies
\* directly before the caret (non-empty text lies between, or nothing lies
\* before) resolves to no tag container and removes none.
C5_BackspaceKeepsTokens ==
    [][\A p \in Points(dom) :
          (BackspaceAt(p) /\ C5_Position(dom, p))
          => /\ last'.target = 0
             /\ ~last'.prevented
             /\ Tokens(dom') = Tokens(dom)]_vars

\* every child node of d after child j is an empty text node
OnlyEmptyAfter(d, j) == \A i \in (j + 1)..Len(d) : EmptyText(d, i)

\* C6: a Backspace with the caret at the end of the edit area (container,
\* offset = number of child nodes), when only empty text nodes (none, one or
\* several) follow the last tag container, deletes that tag container.
C6_BackspaceAtEnd ==
    [][\A j \in 1..Len(dom) :
          (/\ BackspaceAt(Point(0, Len(dom)))
           /\ isTagContainer(dom, j)
           /\ OnlyEmptyAfter(dom, j))
          => /\ last'.target = j
             /\ last'.prevented
             /\ dom' = RemoveAt(dom, j)]_vars

\* case 4 of findTagToDelete deleted a tag container that two or more empty
\* text nodes followed
C6_Witness ==
    /\ last.op = "backspace"
    /\ last.case = 4
    /\ last.target >= 1
    /\ Len(dom) >= last.target + 1
    /\ \A i \in last.target..Len(dom) : EmptyText(dom, i)

\* C7, as claimed: a Backspace with the caret between child nodes (container,
\* k), 0 < k < number of child nodes, when child j is a tag container and
\* the child nodes j + 1 .. k are empty text nodes, deletes tag container j.
C7_BackspaceSkipsEmptyText ==
    [][\A j \in 1..Len(dom), k \in 1..(Len(dom) - 1) :
          (/\ BackspaceAt(Point(0, k))
           /\ j <= k
           /\ isTagContainer(dom, j)
           /\ \A i \in (j + 1)..k : EmptyText(dom, i))
          => last'.target = j]_vars

\* C8: a Backspace with the caret at offset 0 of a text node whose previous
\* sibling is a tag container deletes that tag container and nothing else,
\* and prevents the browser's own deletion.
C8_BackspaceAtTextStart ==
    [][\A p \in Points(dom) :
          (/\ BackspaceAt(p)
           /\ InText(dom, p) /\ p.off = 0
           /\ isTagContainer(dom, p.node - 1))
          => /\ last'.target = p.node - 1
             /\ last'.prevented
             /\ dom' = RemoveAt(dom, p.node - 1)]_vars

\* case 2 of findTagToDelete deleted a tag container; the text node that
\* held the caret is now where the tag container was, with its characters
C8_Witness ==
    /\ last.op = "backspace"
    /\ last.case = 2
    /\ last.target >= 1
    /\ last.target <= Len(dom)
    /\ dom[last.target].type = "text"
    /\ dom[last.target].value # <<>>
    /\ selection = Caret(Point(0, last.target - 1))

(***************************************************************************)
(* Properties of the emitted model value over an editing session.          *)
(***************************************************************************)
\* the buffer the edit area d holds: its segments in order, text verbatim,
\* in canonical form
Buffer(d) == normalize(CollectFrom(d, 1, FALSE))

\* no empty text entry and no two consecutive text entries
Canonical(c) ==
    /\ \A i \in 1..Len(c) : c[i].type = "text" => c[i].value # <<>>
    /\ \A i \in 1..(Len(c) - 1) : ~(c[i].type = "text" /\ c[i + 1].type = "text")

\* C1, as claimed: in the string variant, whatever insertions, deletions
\* and text edits led to the edit area, decoding the string the owner holds
\* (the encoding of the buffer) gives the buffer back: the same tag
\* identifiers and the same text runs in the same order.
C1_StringRoundTrip ==
    (stage = "off" /\ form = "string")
    => parseStringToContent(modelValue) = Buffer(dom)

\* C2, as claimed: in the list variant, as long as only tags were inserted
\* and deleted, decoding the list the owner holds (the encoding of the
\* buffer) gives the buffer back, white space of the text runs included.
C2_ListRoundTrip ==
    (stage = "off" /\ form = "list" /\ ~last.typed)
    => Buffer(renderModelValueList(modelList)) = Buffer(dom)

\* C3, as claimed: the list emitted by an operation holds no empty text
\* entry and no two consecutive text entries.
C3_EmittedListCanonical ==
    (stage = "off" /\ form = "list" /\ last.emitted) => Canonical(modelList)

(***************************************************************************)
(* Properties of insertion.                                                *)
(***************************************************************************)
\* the range handleTagClick inserts at: the remembered range, or the end of
\* the edit area when none is remembered
InsertRange == IF currentRange.kind = "in" THEN currentRange ELSE Caret(Point(0, Len(dom)))

\* the edit area ends with a non-empty text node and p is the point after
\* its last character
AtEndOfLastText(d, p) ==
    /\ Len(d) > 0
    /\ d[Len(d)].type = "text"
    /\ d[Len(d)].value # <<>>
    /\ p \in {Point(0, Len(d)), Point(Len(d), Len(d[Len(d)].value))}

\* C11, as claimed: inserting a tag at the end of an edit area whose last
\* child is a non-empty text node emits the entries of the edit area before,
\* text verbatim (trailing white space included), followed by exactly one tag
\* entry: as that list in the list variant, as its bracketed string in the
\* string variant.
C11_InsertAtEndAppendsTag ==
    [][(/\ last'.op = "insert"
        /\ collapsed(InsertRange)
        /\ AtEndOfLastText(dom, InsertRange.start))
       => \E tag \in tags :
             LET entries == CollectFrom(dom, 1, FALSE) \o <<TagEntry(tag)>>
             IN  /\ form = "list" => modelList' = entries
                 /\ form = "string" => modelValue' = contentToString(entries)]_vars

\* the child nodes of d, and the part of a text node, that lie before the
\* point p (p not inside a tag container)
PrefixTo(d, p) ==
    IF p.node = 0 THEN SubSeq(d, 1, p.off)
    ELSE Append(SubSeq(d, 1, p.node - 1), TextNode(SubSeq(d[p.node].value, 1, p.off)))

\* C12, as claimed: a click on an offered tag always adds exactly one tag
\* container to the child nodes of the edit area and changes nothing else;
\* with no remembered range it becomes the last child, with a remembered
\* caret it stands at that caret (what lay before the caret lies before it).
C12_InsertFallback ==
    [][last'.op = "insert"
       => /\ isTagContainer(dom', last'.target)
          /\ currentRange.kind # "in"
             => /\ last'.target = Len(dom')
                /\ RemoveAt(dom', last'.target) = dom
          /\ (currentRange.kind = "in" /\ collapsed(currentRange))
             => /\ Buffer(RemoveAt(dom', last'.target)) = Buffer(dom)
                /\ Buffer(SubSeq(dom', 1, last'.target - 1))
                      = Buffer(PrefixTo(dom, currentRange.start))]_vars

\* C13: after a tag container was inserted as a child node the remembered
\* range is the caret directly after it, and a next insertion, with no other
\* event between the two, puts its tag container directly after the first
\* and changes nothing else: consecutive insertions stand next to one
\* another in the order of the requests.
C13_ChainedInsertion ==
    [][/\ (last'.op = "insert" /\ last'.target # 0)
          => currentRange' = Caret(Point(0, last'.target))
       /\ (last.op = "insert" /\ last.target # 0 /\ last'.op = "insert")
          => /\ last'.target = last.target + 1
             /\ isTagContainer(dom', last'.target)
             /\ RemoveAt(dom', last'.target) = dom]_vars

\* three tag containers stand next to one another, the last one inserted
\* third, and the caret is after it
C13_Witness ==
    /\ last.op = "insert"
    /\ last.target = 3
    /\ \A i \in 1..3 : isTagContainer(dom, i)
    /\ currentRange = Caret(Point(0, 3))

\* C14: after a tag container was deleted, by its close button or by
\* Backspace, the remembered range is the caret where it stood, and an
\* insertion that follows with no other event between puts the new tag
\* container at the child index the deleted one had, changing nothing else.
C14_PositionAfterDeletion ==
    [][/\ (last'.op \in {"remove", "backspace"} /\ last'.target # 0)
          => currentRange' = Caret(Point(0, last'.target - 1))
       /\ (last.op \in {"remove", "backspace"} /\ last.target # 0
           /\ last'.op = "insert")
          => /\ last'.target = last.target
             /\ isTagContainer(dom', last'.target)
             /\ RemoveAt(dom', last'.target) = dom]_vars

\* a tag container that stood between two other child nodes was deleted and
\* the caret is remembered between those two
C14_Witness ==
    /\ last.op \in {"remove", "backspace"}
    /\ last.target = 2
    /\ Len(dom) = 2
    /\ currentRange = Caret(Point(0, 1))

(***************************************************************************)
(* Properties of removal requests, emission and capture.                   *)
(***************************************************************************)
\* C15, as claimed: a removal request for a tag container that is no longer
\* in the edit area ends as a no-op found by a check ("notfound"): no fault
\* is raised, and the edit area and the remembered range stay as they are.
C15_RemoveDetachedIsNoOp ==
    [][last'.op \in {"notfound", "fault"}
       => /\ last'.op = "notfound"
          /\ UNCHANGED <<dom, currentRange>>]_vars

\* C16: every step that changes the edit area (a tag inserted, a tag closed,
\* a tag deleted by Backspace, text changed by the browser) emits
\* update:modelValue within the same step, before any other handler runs,
\* and the owner then holds the encoding of the edit area as that step left
\* it: the bracketed string in the string variant, the entry list in the
\* list variant.
C16_EmissionOnMutation ==
    [][(\/ dom' # dom
        \/ last'.op \in {"insert", "remove", "removeNested"}
        \/ last'.op = "backspace" /\ last'.target # 0)
       => /\ last'.emitted
          /\ form = "string" => modelValue' = contentToString(CollectContent(dom'))
          /\ form = "list" => modelList' = updateModelValueList(dom')]_vars

\* Backspace deleted a character, not a tag, and the string the owner holds
\* is the encoding of what is left
C16_Witness ==
    /\ last.op = "backspace"
    /\ last.target = 0
    /\ last.emitted
    /\ form = "string"
    /\ Len(dom) >= 2
    /\ modelValue = contentToString(CollectContent(dom))
    /\ modelValue # <<>>

\* C17: a capture (saveCurrentRange, here run by the focus and the click
\* handler) remembers a range exactly when the document has a selection
\* that lies within the edit area, and then it is that selection's range;
\* with no selection, or a selection elsewhere in the document, it remembers
\* null.
C17_CaptureIffInContainer ==
    [][last'.op \in {"focus", "click"}
       => /\ currentRange'.kind = "in" <=> selection'.kind = "in"
          /\ currentRange'.kind = "in" => currentRange' = selection'
          /\ currentRange'.kind # "in" => currentRange' = Null]_vars

\* the edit area got the focus while the selection was elsewhere in the
\* document: null is remembered
C17_Witness ==
    /\ last.op = "focus"
    /\ selection = Outside
    /\ currentRange = Null
    /\ Len(dom) > 0

\* C18, as claimed: the remembered range never has a boundary point inside
\* a tag container, and no tag container holds another tag container.
C18_TokensAreLeaves ==
    /\ currentRange.kind = "in"
       => ~InTag(dom, currentRange.start) /\ ~InTag(dom, currentRange.end)
    /\ \A i \in 1..Len(dom) : dom[i].kids = 0

\* the segments of the edit area d: its tag containers and its non-empty
\* text nodes, in order
Segments(d) ==
    SelectSeq(d, LAMBDA n : n.type = "tag" \/ n.value # <<>>)

\* C19, as claimed: the list the list variant emits has exactly one entry
\* per segment of the edit area, in order and of the segment's type (so as
\* many tag entries as tag containers, and an entry for every non-empty text
\* node, also one of white space only), and no entry with an empty value.
C19_OneEntryPerSegment ==
    (stage = "off" /\ form = "list" /\ last.emitted)
    => /\ Len(modelList) = Len(Segments(dom))
       /\ \A i \in 1..Len(modelList) :
             /\ modelList[i].type = Segments(dom)[i].type
             /\ modelList[i].value # <<>>

(***************************************************************************)
(* Properties of Backspace as a whole.                                     *)
(***************************************************************************)
\* C20: a Backspace has exactly one of two outcomes.  Either findTagToDelete
\* answers a tag container: the browser's own deletion is prevented and the
\* edit area loses that child node and nothing else, no character of any
\* text node.  Or it answers none (or is not asked: no selection, or a
\* non-collapsed one): nothing is prevented, the handler itself changes
\* nothing, and the edit area is as the browser's own deletion leaves it.
C20_BackspaceOutcomes ==
    [][last'.op = "backspace"
       => \/ /\ last'.target # 0
             /\ last'.prevented
             /\ isTagContainer(dom, last'.target)
             /\ dom' = RemoveAt(dom, last'.target)
          \/ /\ last'.target = 0
             /\ ~last'.prevented
             /\ selection.kind # "in" => dom' = dom
             /\ (selection.kind = "in" /\ collapsed(selection))
                => dom' = DefaultBackspace(dom, selection.start).dom
             /\ (selection.kind = "in" /\ ~collapsed(selection))
                => dom' = deleteContents(dom, selection).dom]_vars

\* Backspace deleted a tag container that stood directly after a non-empty
\* text node, and that text node still has its characters
C20_Witness ==
    /\ last.op = "backspace"
    /\ last.prevented
    /\ last.target >= 2
    /\ dom[last.target - 1].type = "text"
    /\ dom[last.target - 1].value # <<>>
    /\ modelValue \o contentToString(modelList) # <<>>

(***************************************************************************)
(* Properties of insertion and deletion over the remembered range.         *)
(***************************************************************************)
\* C21, as claimed: a click on an offered tag loses nothing of the edit
\* area, whatever range is remembered (a non-collapsed one included): the
\* edit area afterwards, without the new tag container, holds the buffer it
\* held before, every tag container and every character in the same order.
C21_InsertLosesNothing ==
    [][last'.op = "insert"
       => IF last'.target # 0
          THEN /\ isTagContainer(dom', last'.target)
               /\ Buffer(RemoveAt(dom', last'.target)) = Buffer(dom)
          ELSE Buffer(dom') = Buffer(dom)]_vars

\* C22: a Backspace pressed while the selection in the edit area is not
\* collapsed never reaches findTagToDelete: whatever tag containers lie in
\* or next to the selection, the handler targets none, prevents nothing,
\* and the edit area is as the browser's own deletion of the selection
\* leaves it.
C22_SelectionBackspace ==
    [][(/\ last'.op = "backspace"
        /\ selection.kind = "in"
        /\ selection.start # selection.end)
       => /\ last'.target = 0
          /\ last'.case = 0
          /\ ~last'.prevented
          /\ dom' = deleteContents(dom, selection).dom]_vars

\* Backspace ran with the whole content of the edit area selected: nothing
\* was targeted or prevented and the browser emptied the edit area
C22_Witness ==
    /\ last.op = "backspace"
    /\ last.target = 0
    /\ ~last.prevented
    /\ last.emitted
    /\ dom = <<>>

\* the last handler called saveCursorPosition while there was no selection
\* or the selection lay outside the edit area
CapturedNothing ==
    \/ last.op \in {"focus", "key"} /\ selection.kind # "in"
    \/ last.op = "backspace" /\ selection.kind = "outside"

\* C23: saveCursorPosition overwrites the remembered range with what it
\* finds, null included: after a capture taken with no selection in the edit
\* area nothing is remembered, whatever was remembered before, and a click on
\* an offered tag that comes next appends the tag container as the last
\* child of the edit area and changes nothing else.
C23_CaptureOverwrites ==
    [][/\ CapturedNothing' => currentRange' = Null
       /\ (CapturedNothing /\ last'.op = "insert")
          => /\ last'.target = Len(dom')
             /\ isTagContainer(dom', Len(dom'))
             /\ RemoveAt(dom', Len(dom')) = dom]_vars

\* a capture found no selection in an edit area that holds two tag
\* containers, one of them inserted earlier (which left a remembered caret)
C23_Witness ==
    /\ CapturedNothing
    /\ currentRange = Null
    /\ ~last.typed
    /\ Len(Tokens(dom)) >= 2

(***************************************************************************)
(* Properties of the bracketed string.                                     *)
(***************************************************************************)
\* the child nodes of d written out one after the other: the characters of
\* a text node as they are, a tag container as "{", its identifier, "}"
RECURSIVE Verbatim(_)
Verbatim(d) ==
    IF d = <<>> THEN <<>>
    ELSE (IF Head(d).type = "text" THEN Head(d).value
          ELSE <<"{">> \o Head(d).value \o <<"}">>) \o Verbatim(Tail(d))

\* C24: the string the string variant emits is the child nodes of the edit
\* area written out in order: each text node's characters unchanged (white
\* space at the start, at the end and on its own included) and
\* "{identifier}" for each tag container.
C24_StringEncodingVerbatim ==
    (stage = "off" /\ form = "string" /\ last.emitted)
    => modelValue = Verbatim(dom)

\* the string variant emitted an edit area that holds a text node of white
\* space only next to tag containers
C24_Witness ==
    /\ stage = "off"
    /\ form = "string"
    /\ last.emitted
    /\ \E i \in 1..Len(dom) : dom[i].type = "text" /\ dom[i].value = <<" ">>
    /\ Len(Tokens(dom)) >= 2

(***************************************************************************)
(* Properties of the session as a whole.                                   *)
(***************************************************************************)
\* C25: the edit area is rendered from the model value once, when the
\* component is mounted.  A later change of the model value by the owner
\* leaves the edit area, the selection and the remembered range as they
\* are; and after an insertion or a removal, whose emission comes back
\* through v-model, the edit area is node for node what the handler left
\* (empty text nodes included) and the remembered range is the caret the
\* handler left, not a rendering of the emitted value.
C25_RenderedOnce ==
    [][/\ last'.op = "owner"
          => /\ dom' = dom
             /\ selection' = selection
             /\ currentRange' = currentRange
       /\ last'.op = "insert"
          => \E tag \in tags :
                LET ins == insertElementAtRange(dom, createTagContainer(tag),
                                                InsertRange)
                IN  /\ dom' = ins.dom
                    /\ currentRange' = Caret(ins.at)
       /\ last'.op = "remove"
          => /\ dom' = RemoveAt(dom, last'.target)
             /\ currentRange' = Caret(Point(0, last'.target - 1))]_vars

\* the owner assigned a value that is not the encoding of the edit area,
\* and the edit area, with a caret remembered in it, is still there
C25_Witness ==
    /\ last.op = "owner"
    /\ form = "string"
    /\ modelValue # updateModelValue(dom)
    /\ dom # <<>>
    /\ currentRange.kind = "in"

(***************************************************************************)
(* Properties of the codec as a whole.                                     *)
(***************************************************************************)
\* C26: for every string, also one with a "{" that is never closed, with
\* "{}", with nested or repeated braces, encoding what parseStringToContent
\* returns gives the string back, character for character.
C26_StringLevelRoundTrip ==
    stage = "encoded" => encoded = str

\* "{{a}}" was decoded to the tag "{a" and the text "}" and encoded again
C26_Witness ==
    /\ stage = "encoded"
    /\ str = <<"{", "{", "a", "}", "}">>
    /\ content = <<TagEntry(<<"{", "a">>), TextEntry(<<"}">>)>>
    /\ encoded = str

\* C27: for every string, parseStringToContent returns a sequence without
\* an entry of empty value and without two text entries in a row, and every
\* tag entry's identifier is non-empty and holds no "}".
C27_DecoderCanonical ==
    Decoded
    => /\ Canonical(content)
       /\ \A i \in 1..Len(content) :
             /\ content[i].value # <<>>
             /\ content[i].type = "tag"
                => \A k \in 1..Len(content[i].value) : content[i].value[k] # "}"

\* "{}{a}" was decoded: "{}" is text, not a tag of empty identifier, and no
\* empty text stands between it and the tag
C27_Witness ==
    /\ stage = "parsed"
    /\ str = <<"{", "}", "{", "a", "}">>
    /\ content = <<TextEntry(<<"{", "}">>), TagEntry(<<"a">>)>>

(***************************************************************************)
(* Insertion followed by deletion.                                         *)
(***************************************************************************)
\* C28: inserting a tag at a remembered caret (or at the end, with none
\* remembered) and then removing that tag container, by its close button or
\* by Backspace, gives back the bracketed string of before and the caret of
\* before.  In two steps.  The insertion: the string variant holds the
\* encoding of the edit area, the edit area without the new tag container
\* encodes to the same string, and what stands before the new tag container
\* encodes to what stood before the caret.  The removal that follows: the
\* edit area loses that child node only, the string variant emits its
\* encoding, and the remembered range is the caret where the tag container
\* stood.  For a caret inside a tag container the new one goes inside it
\* and comes out of it again; the encoding and the caret stay as they are.
C28_InsertThenDelete ==
    [][/\ (last'.op = "insert" /\ last'.target # 0 /\ collapsed(InsertRange))
          => /\ form = "string" => modelValue = updateModelValue(dom)
             /\ updateModelValue(RemoveAt(dom', last'.target))
                   = updateModelValue(dom)
             /\ updateModelValue(SubSeq(dom', 1, last'.target - 1))
                   = updateModelValue(PrefixTo(dom, InsertRange.start))
       /\ (/\ last.op = "insert" /\ last.target # 0
           /\ last'.op \in {"remove", "backspace"}
           /\ last'.target = last.target)
          => /\ dom' = RemoveAt(dom, last.target)
             /\ form = "string" => modelValue' = updateModelValue(dom')
             /\ currentRange' = Caret(Point(0, last.target - 1))
       /\ (last'.op = "insert" /\ last'.target = 0)
          => /\ InTag(dom, InsertRange.start)
             /\ updateModelValue(dom') = updateModelValue(dom)
             /\ currentRange' = InsertRange
       /\ (/\ last.op = "insert" /\ last.target = 0
           /\ last'.op = "removeNested"
           /\ last'.target = currentRange.start.node)
          => /\ form = "string" => modelValue' = modelValue
             /\ currentRange' = currentRange]_vars

\* the string variant mounted on "{": a tag was inserted at the caret after
\* the "{", which split the text node, and removed again; the emitted string
\* is "{" and the remembered caret stands between the two halves
C28_Witness ==
    /\ form = "string"
    /\ last.op \in {"remove", "backspace"}
    /\ last.target = 2
    /\ dom = <<TextNode(<<"{">>), TextNode(<<>>)>>
    /\ modelValue = <<"{">>
    /\ currentRange = Caret(Point(0, 1))

(***************************************************************************)
(* Properties of the events that move the caret.                           *)
(***************************************************************************)
\* the step leaves the edit area and the model value as they are and emits
\* nothing
Quiet ==
    /\ dom' = dom
    /\ ~last'.emitted
    /\ modelValue' = modelValue
    /\ modelList' = modelList

\* the browser's own Backspace has something to delete: a non-collapsed
\* selection, or a character before the caret in its text node
BrowserDeletes ==
    /\ selection.kind = "in"
    /\ \/ selection.start # selection.end
       \/ DefaultBackspace(dom, selection.start).changed

\* C29, as claimed: a focus event, a click in the edit area, a key other
\* than Backspace and a Backspace at a collapsed caret for which
\* findTagToDelete answers none leave the segments of the edit area as they
\* are and emit nothing.
C29_CaretOnlyEvents ==
    [][(\/ last'.op \in {"focus", "click", "key"}
        \/ /\ last'.op = "backspace"
           /\ selection.kind = "in"
           /\ collapsed(selection)
           /\ last'.target = 0)
       => /\ Buffer(dom') = Buffer(dom)
          /\ ~last'.emitted
          /\ modelValue' = modelValue
          /\ modelList' = modelList]_vars

\* C29, amended: a focus event, a click in the edit area and a key that
\* edits nothing leave the edit area and the model value as they are and
\* emit nothing.  A Backspace for which findTagToDelete answers none
\* prevents nothing: when the browser's own deletion has nothing to delete
\* the step is as quiet; when it has, the edit area changes to what that
\* deletion leaves and the input handler emits its encoding.  A character
\* key changes the edit area and emits as well.
C29_CaretOnlyHandlers ==
    [][/\ last'.op \in {"focus", "click", "key"} => Quiet
       /\ (last'.op = "backspace" /\ last'.target = 0)
          => /\ ~last'.prevented
             /\ IF BrowserDeletes
                THEN /\ last'.emitted
                     /\ dom' # dom
                     /\ dom' = IF collapsed(selection)
                               THEN DefaultBackspace(dom, selection.start).dom
                               ELSE deleteContents(dom, selection).dom
                     /\ form = "string" => modelValue' = updateModelValue(dom')
                     /\ form = "list" => modelList' = updateModelValueList(dom')
                ELSE Quiet
       /\ last'.op = "input" => (last'.emitted /\ dom' # dom)]_vars

\* a Backspace found no tag container to delete, the browser deleted from a
\* text node, and the new value was emitted
C29_Witness ==
    /\ last.op = "backspace"
    /\ last.target = 0
    /\ ~last.prevented
    /\ last.emitted
    /\ selection.kind = "in"
    /\ InText(dom, selection.start)

====
